---- MODULE Spec2Model ----
(***************************************************************************)
(* CRC-32C dispatcher of cpu-check (crc32c.c, crc32c.h, crc32c_test.cc):   *)
(* the two checksum engines, the capability detector, the pthread_once     *)
(* guarded initialization, the force-software override and the self-check. *)
(*                                                                         *)
(* A 32-bit register is the set of its one-bits (a subset of 0..31, bit i  *)
(* has weight 2^i), so that uint32_t arithmetic keeps its width: XOR is    *)
(* the symmetric difference, >> 1 drops bit 0, ~ is the complement.        *)
(***************************************************************************)
EXTENDS Integers, Sequences, FiniteSets, TLC

(***************************************************************************)
(* Bounds of the model.                                                    *)
(***************************************************************************)
\* number of threads calling into the library
NThreads == 2
\* number of library calls and environment changes in one run of the process
MaxCalls == 3
\* lengths 0..MaxLen of the buffers the engines are run on
MaxLen == 19
\* start offsets 0..MaxOff of those buffers inside the byte patterns
MaxOff == 2

(***************************************************************************)
(* Words and bytes.                                                        *)
(***************************************************************************)
Word32 == 0..31

Xor(a, b) == {i \in Word32 : (i \in a) # (i \in b)}

Not32(h) == {i \in Word32 : i \notin h}

Shr1(h) == {i \in 0..30 : (i + 1) \in h}

Pow2(n) == IF n = 0 THEN 1
           ELSE IF n = 1 THEN 2
           ELSE IF n = 2 THEN 4
           ELSE IF n = 3 THEN 8
           ELSE IF n = 4 THEN 16
           ELSE IF n = 5 THEN 32
           ELSE IF n = 6 THEN 64
           ELSE 128

\* the bits of an unsigned char
ByteBits(v) == {i \in 0..7 : (v \div Pow2(i)) % 2 = 1}

\* a hexadecimal literal of 8 digits, most significant first
Hex32(d) == {i \in Word32 : (d[8 - (i \div 4)] \div Pow2(i % 4)) % 2 = 1}

\* #define POLY 0x82f63b78
POLY == Hex32(<<8, 2, 15, 6, 3, 11, 7, 8>>)

(***************************************************************************)
(* crc32c_sw: the bit-serial reference engine.                             *)
(***************************************************************************)
\* for (int k = 0; k < 8; k++) h = h & 1 ? (h >> 1) ^ POLY : h >> 1;
RECURSIVE sw_shift(_, _)
sw_shift(h, k) ==
  IF k = 8 THEN h
  ELSE IF 0 \in h THEN sw_shift(Xor(Shr1(h), POLY), k + 1)
       ELSE sw_shift(Shr1(h), k + 1)

\* h ^= *s++; followed by the 8 shift steps
sw_byte(h, v) == sw_shift(Xor(h, ByteBits(v)), 0)

\* while (len--) { h ^= *s++; ... }   st = <<index of *s, h>>.
\* sw_loop runs at most n iterations of the loop from st; the iterations
\* are split in two halves only to keep the depth of evaluation
\* logarithmic in n, the bytes are consumed first to last.
RECURSIVE sw_loop(_, _, _)
sw_loop(src, n, st) ==
  IF st[1] > Len(src) \/ n = 0 THEN st
  ELSE IF n = 1 THEN <<st[1] + 1, sw_byte(st[2], src[st[1]])>>
  ELSE sw_loop(src, n - (n \div 2), sw_loop(src, n \div 2, st))

\* uint32_t h = ~0; ... return ~h;
crc32c_sw(src) == Not32(sw_loop(src, Len(src), <<1, Word32>>)[2])

(***************************************************************************)
(* The CRC32 instruction of SSE4.2 behind _mm_crc32_u8/u16/u32/u64, as the *)
(* instruction set reference defines it: the n-bit source and the 32-bit   *)
(* destination are bit-reflected, the source is multiplied by x^32, the    *)
(* destination by x^n, both are added and the sum is reduced modulo the    *)
(* polynomial 0x11EDC6F41 over GF(2); the reflected remainder is the new   *)
(* destination.  A polynomial is the set of its exponents.                 *)
(***************************************************************************)
CRC_GEN == {i \in 0..32 : i = 32 \/ i \in Hex32(<<1, 14, 13, 12, 6, 15, 4, 1>>)}

\* remainder of p (degree <= d) modulo CRC_GEN
RECURSIVE Mod2(_, _)
Mod2(p, d) ==
  IF d < 32 THEN p
  ELSE IF d \in p
       THEN Mod2({b \in 0..(d - 1) :
                    (b \in p) # (b >= d - 32 /\ (b - (d - 32)) \in CRC_GEN)},
                 d - 1)
       ELSE Mod2(p, d - 1)

crc32_insn(dest, v, n) ==
  LET t1 == {b \in 0..(n - 1) : (n - 1 - b) \in v}
      t2 == {b \in Word32 : (31 - b) \in dest}
      t5 == {b \in 0..(n + 31) :
               (b >= 32 /\ (b - 32) \in t1) # (b >= n /\ (b - n) \in t2)}
      t6 == Mod2(t5, n + 31)
  IN  {b \in Word32 : (31 - b) \in t6}

\* memcpy(&v, s, sizeof(v)) on a little-endian machine: nbytes bytes from
\* src[pos] (1-based) become the bits 0..8*nbytes-1 of v
load(src, pos, nbytes) ==
  {b \in 0..(8 * nbytes - 1) : (b % 8) \in ByteBits(src[pos + (b \div 8)])}

mm_crc32_u8(h, v) == crc32_insn(h, v, 8)
mm_crc32_u16(h, v) == crc32_insn(h, v, 16)
mm_crc32_u32(h, v) == crc32_insn(h, v, 32)
\* the 64-bit form reads the low half of its destination and clears the
\* high half
mm_crc32_u64(hh, v) == crc32_insn({i \in Word32 : i \in hh}, v, 64)

(***************************************************************************)
(* crc32c_hw_body: the chunked fold.  arch is the build target: the 8-byte *)
(* loop is compiled under #ifdef __x86_64__ only.                          *)
(***************************************************************************)
Archs == {"x86_64", "i386", "other"}

X86_ONLY(arch) == arch \in {"x86_64", "i386"}

\* The locals of crc32c_hw_body: s (index of *s in src, from 1), len and
\* the register h (hh while the 8-byte loop runs).
\* const unsigned char *s = src; uint64_t hh = ~0u;
hw_entry(src) == [s |-> 1, len |-> Len(src), h |-> Word32]

\* { memcpy(&v, s, 8); hh = _mm_crc32_u64(hh, v); s += 8; len -= 8; }
hw_iter8(src, st) ==
  [s |-> st.s + 8, len |-> st.len - 8,
   h |-> mm_crc32_u64(st.h, load(src, st.s, 8))]

\* while (len > 7) { ... }
RECURSIVE hw_loop8(_, _)
hw_loop8(src, st) ==
  IF st.len > 7 THEN hw_loop8(src, hw_iter8(src, st)) ELSE st

\* uint32_t h = (uint32_t)hh;
hw_trunc(st) == [st EXCEPT !.h = {i \in Word32 : i \in st.h}]

\* if (len > 3) { memcpy(&v, s, 4); h = _mm_crc32_u32(h, v); s += 4; len -= 4; }
hw_step4(src, st) ==
  IF st.len > 3
  THEN [s |-> st.s + 4, len |-> st.len - 4,
        h |-> mm_crc32_u32(st.h, load(src, st.s, 4))]
  ELSE st

\* if (len > 1) { memcpy(&v, s, 2); h = _mm_crc32_u16(h, v); s += 2; len -= 2; }
hw_step2(src, st) ==
  IF st.len > 1
  THEN [s |-> st.s + 2, len |-> st.len - 2,
        h |-> mm_crc32_u16(st.h, load(src, st.s, 2))]
  ELSE st

\* if (len > 0) { memcpy(&v, s, 1); h = _mm_crc32_u8(h, v); }
hw_step1(src, st) ==
  IF st.len > 0
  THEN [st EXCEPT !.h = mm_crc32_u8(st.h, load(src, st.s, 1))]
  ELSE st

\* the 8-byte loop is compiled #ifdef __x86_64__
hw_head(arch, src) ==
  hw_trunc(IF arch = "x86_64" THEN hw_loop8(src, hw_entry(src))
           ELSE hw_entry(src))

\* return ~h;
crc32c_hw_body(arch, src) ==
  Not32(hw_step1(src, hw_step2(src, hw_step4(src, hw_head(arch, src)))).h)

\* crc32c_hw: the exported wrapper
crc32c_hw(arch, src) ==
  IF X86_ONLY(arch) THEN crc32c_hw_body(arch, src) ELSE crc32c_sw(src)

(***************************************************************************)
(* The inputs of the test and of the self-check.                           *)
(***************************************************************************)
\* static const char *k_vec = "123456789";
k_vec == <<49, 50, 51, 52, 53, 54, 55, 56, 57>>

\* the checksum the test expects for k_vec: 0xe3069283
KnownCrc == Hex32(<<14, 3, 0, 6, 9, 2, 8, 3>>)

\* pattern[i] = (uint8_t)(i * 3 + 1), i is 0-based
pattern(i) == (i * 3 + 1) % 256

\* the len bytes at pattern + off
Slice(off, len) == [j \in 1..len |-> pattern(off + j - 1)]

(***************************************************************************)
(* crc32c_selfcheck's comparison of the two engines.                       *)
(***************************************************************************)
\* const size_t offsets[] = {...};  const size_t lengths[] = {...};
offsets == {0, 1, 2, 3, 4, 7, 8, 15, 31, 63}
lengths == {0, 1, 2, 3, 4, 7, 8, 15, 16, 31, 32, 63, 64, 255}

\* uint8_t pattern[512];
PatternSize == 512

\* the value of failures before "if (failures)"
selfcheck_failures(arch) ==
  (IF crc32c_hw_body(arch, k_vec) # crc32c_sw(k_vec) THEN 1 ELSE 0)
  + Cardinality({p \in offsets \X lengths :
                   /\ ~(p[1] + p[2] > PatternSize)
                   /\ crc32c_hw_body(arch, Slice(p[1], p[2]))
                        # crc32c_sw(Slice(p[1], p[2]))})

\* the two engines differ on some input the self-check compares
EnginesDisagree(arch) ==
  \/ crc32c_hw_body(arch, k_vec) # crc32c_sw(k_vec)
  \/ \E off \in offsets, len \in lengths :
       /\ off + len <= PatternSize
       /\ crc32c_hw_body(arch, Slice(off, len)) # crc32c_sw(Slice(off, len))

(***************************************************************************)
(* The process: threads calling the five public functions.                 *)
(***************************************************************************)
Threads == 1..NThreads

\* values of getenv("CRC32C_FORCE"): NULL, "sw", "hw", any other string
EnvValues == {"unset", "sw", "hw", "other"}

\* enum crc32c_impl
crc32c_impl == {"CRC32C_IMPL_AUTO", "CRC32C_IMPL_HW", "CRC32C_IMPL_SW"}
HW == "CRC32C_IMPL_HW"
SW == "CRC32C_IMPL_SW"

\* buffers handed to crc32c
Inputs == {<<>>, k_vec}

VARIABLES
  arch,           \* build target: x86_64, i386, or a target without X86_ONLY
  sse42,          \* __builtin_cpu_supports("sse4.2") on this CPU
  sc_failures,    \* what crc32c_selfcheck counts in failures on this build
  disagree,       \* whether the engines of this build differ on a checked input
  sw_out,         \* sw_out[b]: what crc32c_sw returns for buffer b
  hw_out,         \* hw_out[b]: what crc32c_hw_body of this build returns for b
  e_src,          \* the buffer one run of the two engines is given
  e_pc,           \* where that run of crc32c_hw_body is; "off" in the process
  e_st,           \* its locals s, len and h
  e_reads,        \* the indices of src it has read, in order
  e_hw,           \* <<what crc32c_hw_body has returned>>, <<>> before it has
  e_sw,           \* <<what crc32c_sw has returned>>, <<>> before it has
  env,            \* the current value of CRC32C_FORCE
  g_crc32c_once,  \* pthread_once_t: "INIT", "RUNNING" or "DONE"
  g_force_sw,     \* static volatile int g_force_sw
  g_impl,         \* static crc32c_impl g_impl
  pc,             \* pc[t]: where thread t is; "idle" between calls
  op,             \* op[t]: the public function thread t is in
  ra,             \* ra[t]: where t continues after pthread_once
  buf,            \* buf[t]: the src argument of crc32c
  sel,            \* sel[t]: the value of g_impl the call has read, or "none"
  after_force,    \* after_force[t]: the call began after a force_software returned
  prev,           \* prev[t]: dispatch state left by the force_software call
                  \*          that immediately preceded this call, or <<>>
  last,           \* the call that returned last: function, argument, result
  snap,           \* dispatch state left by the last force_software call while
                  \* no other call has been made since, else <<>>
  calls,          \* number of calls and environment changes begun
  init_runs,      \* number of times the body of crc32c_init was entered
  init_obs,       \* what crc32c_init saw and decided
  force_called,   \* crc32c_force_software has been entered
  force_returned  \* crc32c_force_software has returned

machine == <<arch, sse42, sc_failures, disagree, sw_out, hw_out>>
engine == <<e_src, e_pc, e_st, e_reads, e_hw, e_sw>>
build == <<machine, engine>>
shared == <<g_crc32c_once, g_force_sw, g_impl>>
globals == <<build, env, shared>>
locals == <<pc, op, ra, buf, sel, after_force, prev>>
results == <<last, snap>>
ghosts == <<calls, init_runs, init_obs, force_called, force_returned>>
vars == <<globals, locals, results, ghosts>>

\* force: g_force_sw as line 101 read it (-1: not read yet); env: what getenv returned;
\* result: the selector crc32c_init left; raced: crc32c_force_software set
\* the flag while crc32c_init ran; waited: a caller of pthread_once found
\* crc32c_init running
NoInit == [force |-> -1, env |-> "none", result |-> "none",
           raced |-> FALSE, waited |-> FALSE]

\* What a call returned: a uint32_t checksum (crc), an int (code), a string
\* (name) or nothing, the other fields at their defaults.
RetVoid == [crc |-> {}, code |-> 0, name |-> "none"]
RetCrc(h) == [crc |-> h, code |-> 0, name |-> "crc"]
RetInt(n) == [crc |-> {}, code |-> n, name |-> "int"]
RetStr(str) == [crc |-> {}, code |-> 0, name |-> str]

NoCall == [op |-> "none", buf |-> <<>>, sel |-> "none", ran |-> {},
           ret |-> RetVoid, after_force |-> FALSE, env |-> "none"]

\* the dispatch state C code can observe
Dispatch == <<g_impl, g_force_sw, g_crc32c_once>>

\* static int cpu_has_hw_crc(void)
cpu_has_hw_crc == IF X86_ONLY(arch) THEN sse42 ELSE FALSE

\* the process does not step through the engines: it takes their results
EngineOff ==
  /\ e_src = <<>>
  /\ e_pc = "off"
  /\ e_st = [s |-> 1, len |-> 0, h |-> {}]
  /\ e_reads = <<>>
  /\ e_hw = <<>>
  /\ e_sw = <<>>

\* The statics with g_impl left to its zero value, CRC32C_IMPL_AUTO.
Fresh_zero_selector ==
  /\ g_crc32c_once = "INIT"
  /\ g_force_sw = 0
  /\ g_impl = "CRC32C_IMPL_AUTO"
  /\ pc = [t \in Threads |-> "idle"]
  /\ op = [t \in Threads |-> "none"]
  /\ ra = [t \in Threads |-> "none"]
  /\ buf = [t \in Threads |-> <<>>]
  /\ sel = [t \in Threads |-> "none"]
  /\ after_force = [t \in Threads |-> FALSE]
  /\ prev = [t \in Threads |-> <<>>]
  /\ last = NoCall
  /\ snap = <<>>
  /\ calls = 0
  /\ init_runs = 0
  /\ init_obs = NoInit
  /\ force_called = FALSE
  /\ force_returned = FALSE

\* no call has been made
Fresh ==
  /\ g_crc32c_once = "INIT"
  /\ g_force_sw = 0
  /\ g_impl = "CRC32C_IMPL_SW"
  /\ pc = [t \in Threads |-> "idle"]
  /\ op = [t \in Threads |-> "none"]
  /\ ra = [t \in Threads |-> "none"]
  /\ buf = [t \in Threads |-> <<>>]
  /\ sel = [t \in Threads |-> "none"]
  /\ after_force = [t \in Threads |-> FALSE]
  /\ prev = [t \in Threads |-> <<>>]
  /\ last = NoCall
  /\ snap = <<>>
  /\ calls = 0
  /\ init_runs = 0
  /\ init_obs = NoInit
  /\ force_called = FALSE
  /\ force_returned = FALSE

Init ==
  /\ arch \in Archs
  /\ sc_failures = IF X86_ONLY(arch) THEN selfcheck_failures(arch) ELSE 0
  /\ disagree = (X86_ONLY(arch) /\ EnginesDisagree(arch))
  /\ sw_out = [b \in Inputs |-> crc32c_sw(b)]
  /\ hw_out = [b \in Inputs |-> crc32c_hw(arch, b)]
  /\ sse42 \in (IF X86_ONLY(arch) THEN BOOLEAN ELSE {FALSE})
  /\ env \in EnvValues
  /\ EngineOff
  /\ Fresh

\* A call can begin: idle threads are interchangeable, so the
\* lowest-numbered one takes it.
CanCall(t) ==
  /\ pc[t] = "idle"
  /\ \A u \in Threads : u < t => pc[u] # "idle"
  /\ calls < MaxCalls

\* Thread t enters public function o with argument b.  Entering touches
\* nothing shared, so it is one step with the first statement of o, which
\* sets pc[t] (and ra[t]).
Enter(t, o, b) ==
  /\ CanCall(t)
  /\ calls' = calls + 1
  /\ op' = [op EXCEPT ![t] = o]
  /\ buf' = [buf EXCEPT ![t] = b]
  /\ after_force' = [after_force EXCEPT ![t] = force_returned]
  /\ prev' = [prev EXCEPT ![t] = snap]
  /\ snap' = IF o = "crc32c_force_software" THEN snap ELSE <<>>
  /\ UNCHANGED <<build, env, sel, last, force_returned>>

\* Thread t returns v from its call, having read selector s and executed
\* the engines in e.
\* last.env is CRC32C_FORCE as it is when the call returns.
Return(t, s, e, v) ==
  /\ last' = [op |-> op[t], buf |-> buf[t], sel |-> s, ran |-> e, ret |-> v,
              after_force |-> after_force[t], env |-> env]
  /\ pc' = [pc EXCEPT ![t] = "idle"]
  /\ op' = [op EXCEPT ![t] = "none"]
  /\ ra' = [ra EXCEPT ![t] = "none"]
  /\ buf' = [buf EXCEPT ![t] = <<>>]
  /\ sel' = [sel EXCEPT ![t] = "none"]
  /\ after_force' = [after_force EXCEPT ![t] = FALSE]
  /\ prev' = [prev EXCEPT ![t] = <<>>]

\* A function that touches no shared state: call and return v in one step.
CallReturn(t, o, v) ==
  /\ CanCall(t)
  /\ calls' = calls + 1
  /\ last' = [op |-> o, buf |-> <<>>, sel |-> "none", ran |-> {}, ret |-> v,
              after_force |-> force_returned, env |-> env]
  /\ snap' = <<>>
  /\ UNCHANGED <<globals, locals, init_runs, init_obs, force_called,
                 force_returned>>

(***************************************************************************)
(* pthread_once(&g_crc32c_once, crc32c_init) reached by thread t, which    *)
(* continues at r afterwards: the first caller runs the initializer, a     *)
(* caller that arrives while it runs waits at "once", a caller that        *)
(* arrives after it has finished passes.                                   *)
(***************************************************************************)
\* A once-guard that also admits a caller while the initializer runs.
pthread_once_reentrant(t, r) ==
  /\ ra' = [ra EXCEPT ![t] = r]
  /\ init_obs' = [init_obs EXCEPT !.waited = @ \/ g_crc32c_once = "RUNNING"]
  /\ IF g_crc32c_once # "DONE"
     THEN /\ g_crc32c_once' = "RUNNING"
          /\ init_runs' = init_runs + 1
          /\ pc' = [pc EXCEPT ![t] = "init_check"]
     ELSE /\ pc' = [pc EXCEPT ![t] = r]
          /\ UNCHANGED <<g_crc32c_once, init_runs>>

pthread_once(t, r) ==
  /\ ra' = [ra EXCEPT ![t] = r]
  /\ init_obs' = [init_obs EXCEPT !.waited = @ \/ g_crc32c_once = "RUNNING"]
  /\ IF g_crc32c_once = "INIT"
     THEN /\ g_crc32c_once' = "RUNNING"
          /\ init_runs' = init_runs + 1
          /\ pc' = [pc EXCEPT ![t] = "init_check"]
     ELSE /\ pc' = [pc EXCEPT ![t] = IF g_crc32c_once = "DONE" THEN r ELSE "once"]
          /\ UNCHANGED <<g_crc32c_once, init_runs>>

\* A waiter that is woken only while the initializer is still running:
\* the wake-up at its completion is lost.
OnceWake_lost(t) ==
  /\ pc[t] = "once"
  /\ g_crc32c_once = "INIT"
  /\ pc' = [pc EXCEPT ![t] = ra[t]]
  /\ UNCHANGED <<globals, op, ra, buf, sel, after_force, prev, results,
                 ghosts>>

\* the initializer has finished: a waiting caller continues
OnceWake(t) ==
  /\ pc[t] = "once"
  /\ g_crc32c_once = "DONE"
  /\ pc' = [pc EXCEPT ![t] = ra[t]]
  /\ UNCHANGED <<globals, op, ra, buf, sel, after_force, prev, results,
                 ghosts>>

(***************************************************************************)
(* crc32c_init, statement by statement.  The initializer returning is the  *)
(* completion of pthread_once in the thread that ran it.                   *)
(***************************************************************************)
\* if (g_force_sw) { g_impl = CRC32C_IMPL_SW; return; }
InitCheck(t) ==
  /\ pc[t] = "init_check"
  /\ IF g_force_sw # 0
     THEN /\ g_impl' = "CRC32C_IMPL_SW"
          /\ g_crc32c_once' = "DONE"
          /\ pc' = [pc EXCEPT ![t] = ra[t]]
          /\ init_obs' = [init_obs EXCEPT !.force = 1, !.env = "unread",
                                          !.result = "CRC32C_IMPL_SW"]
     ELSE /\ pc' = [pc EXCEPT ![t] = "init_env"]
          /\ init_obs' = [init_obs EXCEPT !.force = 0]
          /\ UNCHANGED <<g_impl, g_crc32c_once>>
  /\ UNCHANGED <<build, env, g_force_sw, op, ra, buf, sel, after_force, prev,
                 results, calls, init_runs, force_called, force_returned>>

\* const char *env = getenv("CRC32C_FORCE"); if (env != NULL) { ... }
\* For "hw" the flag is written 0 and then, on a CPU without the
\* extension, 1; nothing reads the flag between the two writes.
InitEnv(t) ==
  /\ pc[t] = "init_env"
  /\ g_force_sw' = IF env = "sw" THEN 1
                   ELSE IF env = "hw" THEN (IF cpu_has_hw_crc THEN 0 ELSE 1)
                   ELSE g_force_sw
  /\ init_obs' = [init_obs EXCEPT !.env = env]
  /\ pc' = [pc EXCEPT ![t] = "init_decide"]
  /\ UNCHANGED <<build, env, g_crc32c_once, g_impl, op, ra, buf, sel,
                 after_force, prev, results, calls, init_runs, force_called,
                 force_returned>>

\* A decision that looks at the CPU only: if (cpu_has_hw_crc()) ...
InitDecide_ignores_flag(t) ==
  /\ pc[t] = "init_decide"
  /\ g_impl' = IF cpu_has_hw_crc THEN "CRC32C_IMPL_HW" ELSE "CRC32C_IMPL_SW"
  /\ init_obs' = [init_obs EXCEPT !.result = g_impl']
  /\ g_crc32c_once' = "DONE"
  /\ pc' = [pc EXCEPT ![t] = ra[t]]
  /\ UNCHANGED <<build, env, g_force_sw, op, ra, buf, sel, after_force, prev,
                 results, calls, init_runs, force_called, force_returned>>

\* A decision that looks at the flag only: if (!g_force_sw) ...
InitDecide_ignores_cpu(t) ==
  /\ pc[t] = "init_decide"
  /\ g_impl' = IF g_force_sw = 0 THEN "CRC32C_IMPL_HW" ELSE "CRC32C_IMPL_SW"
  /\ init_obs' = [init_obs EXCEPT !.result = g_impl']
  /\ g_crc32c_once' = "DONE"
  /\ pc' = [pc EXCEPT ![t] = ra[t]]
  /\ UNCHANGED <<build, env, g_force_sw, op, ra, buf, sel, after_force, prev,
                 results, calls, init_runs, force_called, force_returned>>

\* if (!g_force_sw && cpu_has_hw_crc()) g_impl = HW; else g_impl = SW;
InitDecide(t) ==
  /\ pc[t] = "init_decide"
  /\ g_impl' = IF g_force_sw = 0 /\ cpu_has_hw_crc
               THEN "CRC32C_IMPL_HW" ELSE "CRC32C_IMPL_SW"
  /\ init_obs' = [init_obs EXCEPT !.result = g_impl']
  /\ g_crc32c_once' = "DONE"
  /\ pc' = [pc EXCEPT ![t] = ra[t]]
  /\ UNCHANGED <<build, env, g_force_sw, op, ra, buf, sel, after_force, prev,
                 results, calls, init_runs, force_called, force_returned>>

(***************************************************************************)
(* uint32_t crc32c(const char *src, size_t len)                            *)
(***************************************************************************)
\* pthread_once(&g_crc32c_once, crc32c_init);
CallCrc32c(t) ==
  /\ \E b \in Inputs : Enter(t, "crc32c", b)
  /\ pthread_once(t, "read")
  /\ UNCHANGED <<g_force_sw, g_impl, force_called>>

\* the engine crc32c executes for selector s
crc32c_engine(s) ==
  IF s = "CRC32C_IMPL_HW" /\ X86_ONLY(arch) THEN "hw" ELSE "sw"

\* what crc32c returns for src with selector s (the engines' results for
\* the buffers of Inputs are computed once, in Init; hw_out is
\* crc32c_hw_body under X86_ONLY and crc32c_sw without)
crc32c(s, src) ==
  IF s = "CRC32C_IMPL_HW" THEN hw_out[src] ELSE sw_out[src]

\* if (g_impl == CRC32C_IMPL_HW) { ... } return crc32c_sw(src, len);
Crc32c(t) ==
  /\ pc[t] = "read"
  /\ op[t] = "crc32c"
  /\ Return(t, g_impl, {crc32c_engine(g_impl)}, RetCrc(crc32c(g_impl, buf[t])))
  /\ UNCHANGED <<globals, snap, ghosts>>

(***************************************************************************)
(* const char *crc32c_impl_name(void)                                      *)
(***************************************************************************)
\* pthread_once(&g_crc32c_once, crc32c_init);
CallImplName(t) ==
  /\ Enter(t, "crc32c_impl_name", <<>>)
  /\ pthread_once(t, "read")
  /\ UNCHANGED <<g_force_sw, g_impl, force_called>>

\* A crc32c_impl_name that consults CRC32C_FORCE again on every call.
ImplName_rereads_env(t) ==
  /\ pc[t] = "read"
  /\ op[t] = "crc32c_impl_name"
  /\ g_impl' = IF env = "sw" THEN "CRC32C_IMPL_SW" ELSE g_impl
  /\ Return(t, g_impl', {},
            RetStr(IF g_impl' = "CRC32C_IMPL_HW" THEN "hw" ELSE "sw"))
  /\ UNCHANGED <<build, env, g_crc32c_once, g_force_sw, snap, ghosts>>

\* return (g_impl == CRC32C_IMPL_HW) ? "hw" : "sw";
ImplName(t) ==
  /\ pc[t] = "read"
  /\ op[t] = "crc32c_impl_name"
  /\ Return(t, g_impl, {},
            RetStr(IF g_impl = "CRC32C_IMPL_HW" THEN "hw" ELSE "sw"))
  /\ UNCHANGED <<globals, snap, ghosts>>

(***************************************************************************)
(* int crc32c_hw_available(void) { return cpu_has_hw_crc(); }              *)
(***************************************************************************)
\* A query that answers from the selector: return g_impl == CRC32C_IMPL_HW;
HwAvailable_reports_selector(t) ==
  /\ pc[t] = "idle"
  /\ CallReturn(t, "crc32c_hw_available",
                RetInt(IF g_impl = "CRC32C_IMPL_HW" THEN 1 ELSE 0))

HwAvailable(t) ==
  /\ pc[t] = "idle"
  /\ CallReturn(t, "crc32c_hw_available",
                RetInt(IF cpu_has_hw_crc THEN 1 ELSE 0))

(***************************************************************************)
(* void crc32c_force_software(void), called directly or by a failed        *)
(* crc32c_selfcheck.                                                       *)
(***************************************************************************)
\* g_force_sw = 1;   by thread t
force_set(t) ==
  /\ g_force_sw' = 1
  /\ pc' = [pc EXCEPT ![t] = "fs_once"]
  /\ force_called' = TRUE
  /\ init_obs' = [init_obs EXCEPT !.raced = @ \/ g_crc32c_once = "RUNNING"]

CallForceSoftware(t) ==
  /\ CanCall(t)
  /\ calls' = calls + 1
  /\ op' = [op EXCEPT ![t] = "crc32c_force_software"]
  /\ after_force' = [after_force EXCEPT ![t] = force_returned]
  /\ prev' = [prev EXCEPT ![t] = snap]
  /\ force_set(t)
  /\ UNCHANGED <<build, env, g_crc32c_once, g_impl, ra, buf, sel, results,
                 init_runs, force_returned>>

\* crc32c_force_software without its pthread_once.
ForceOnce_skips_once(t) ==
  /\ pc[t] = "fs_once"
  /\ pc' = [pc EXCEPT ![t] = "fs_write"]
  /\ UNCHANGED <<globals, op, ra, buf, sel, after_force, prev, results,
                 ghosts>>

\* pthread_once(&g_crc32c_once, crc32c_init);
ForceOnce(t) ==
  /\ pc[t] = "fs_once"
  /\ pthread_once(t, "fs_write")
  /\ UNCHANGED <<build, env, g_force_sw, g_impl, op, buf, sel, after_force,
                 prev, results, calls, force_called, force_returned>>

\* crc32c_force_software without its last statement, g_impl = SW.
ForceWrite_keeps_selector(t) ==
  /\ pc[t] = "fs_write"
  /\ force_returned' = TRUE
  /\ IF op[t] = "crc32c_selfcheck"
     THEN /\ Return(t, sel[t], {"hw", "sw"}, RetInt(-1))
          /\ UNCHANGED snap
     ELSE /\ Return(t, "none", {}, RetVoid)
          /\ snap' = <<g_impl, g_force_sw, g_crc32c_once>>
  /\ UNCHANGED <<build, env, shared, calls, init_runs, init_obs,
                 force_called>>

\* g_impl = CRC32C_IMPL_SW; and the return; in crc32c_selfcheck: return -1;
ForceWrite(t) ==
  /\ pc[t] = "fs_write"
  /\ g_impl' = "CRC32C_IMPL_SW"
  /\ force_returned' = TRUE
  /\ IF op[t] = "crc32c_selfcheck"
     THEN /\ Return(t, sel[t], {"hw", "sw"}, RetInt(-1))
          /\ UNCHANGED snap
     ELSE /\ Return(t, "none", {}, RetVoid)
          /\ snap' = <<g_impl', g_force_sw, g_crc32c_once>>
  /\ UNCHANGED <<build, env, g_crc32c_once, g_force_sw, calls, init_runs,
                 init_obs, force_called>>

(***************************************************************************)
(* int crc32c_selfcheck(void): its body is compiled under X86_ONLY.        *)
(***************************************************************************)
\* pthread_once(&g_crc32c_once, crc32c_init);
CallSelfcheck(t) ==
  /\ X86_ONLY(arch)
  /\ Enter(t, "crc32c_selfcheck", <<>>)
  /\ pthread_once(t, "read")
  /\ UNCHANGED <<g_force_sw, g_impl, force_called>>

\* without X86_ONLY the function is "return 0;"
SelfcheckSkip(t) ==
  /\ ~X86_ONLY(arch)
  /\ CallReturn(t, "crc32c_selfcheck", RetInt(0))

\* crc32c_selfcheck without its early return.
SelfcheckRead_always_checks(t) ==
  /\ pc[t] = "read"
  /\ op[t] = "crc32c_selfcheck"
  /\ pc' = [pc EXCEPT ![t] = "sc_check"]
  /\ sel' = [sel EXCEPT ![t] = g_impl]
  /\ UNCHANGED <<globals, op, ra, buf, after_force, prev, results, ghosts>>

\* if (g_impl != CRC32C_IMPL_HW) return 0;
SelfcheckRead(t) ==
  /\ pc[t] = "read"
  /\ op[t] = "crc32c_selfcheck"
  /\ IF g_impl # "CRC32C_IMPL_HW"
     THEN Return(t, g_impl, {}, RetInt(0))
     ELSE /\ pc' = [pc EXCEPT ![t] = "sc_check"]
          /\ sel' = [sel EXCEPT ![t] = g_impl]
          /\ UNCHANGED <<op, ra, buf, after_force, prev, last>>
  /\ UNCHANGED <<globals, snap, ghosts>>

\* A self-check that reports its failures and leaves the dispatcher alone.
SelfcheckCompare_only_reports(t) ==
  /\ pc[t] = "sc_check"
  /\ Return(t, sel[t], {"hw", "sw"},
            RetInt(IF sc_failures # 0 THEN -1 ELSE 0))
  /\ UNCHANGED <<globals, snap, ghosts>>

\* the known vector and the offset/length matrix (both engines run on
\* every input), then
\* if (failures) { crc32c_force_software(); return -1; }  return 0;
\* The comparison is local to the thread; with failures the step ends with
\* the first statement of crc32c_force_software.
SelfcheckCompare(t) ==
  /\ pc[t] = "sc_check"
  /\ IF sc_failures # 0
     THEN /\ force_set(t)
          /\ UNCHANGED <<op, ra, buf, sel, after_force, prev, last>>
     ELSE /\ Return(t, sel[t], {"hw", "sw"}, RetInt(0))
          /\ UNCHANGED <<g_force_sw, force_called, init_obs>>
  /\ UNCHANGED <<build, env, g_crc32c_once, g_impl, snap, calls, init_runs,
                 force_returned>>

(***************************************************************************)
(* The host process changes CRC32C_FORCE.  A change made before            *)
(* pthread_once has started the initializer is the same as another initial *)
(* value of env, so changes are taken from then on.                        *)
(***************************************************************************)
Setenv(e) ==
  /\ e # env
  /\ g_crc32c_once # "INIT"
  /\ calls < MaxCalls
  /\ calls' = calls + 1
  /\ env' = e
  /\ snap' = <<>>
  /\ UNCHANGED <<build, shared, locals, last, init_runs, init_obs,
                 force_called, force_returned>>

Next ==
  \/ \E t \in Threads : CallCrc32c(t)
  \/ \E t \in Threads : CallImplName(t)
  \/ \E t \in Threads : HwAvailable(t)
  \/ \E t \in Threads : CallForceSoftware(t)
  \/ \E t \in Threads : CallSelfcheck(t)
  \/ \E t \in Threads : SelfcheckSkip(t)
  \/ \E t \in Threads : OnceWake(t)
  \/ \E t \in Threads : InitCheck(t)
  \/ \E t \in Threads : InitEnv(t)
  \/ \E t \in Threads : InitDecide(t)
  \/ \E t \in Threads : Crc32c(t)
  \/ \E t \in Threads : ImplName(t)
  \/ \E t \in Threads : ForceOnce(t)
  \/ \E t \in Threads : ForceWrite(t)
  \/ \E t \in Threads : SelfcheckRead(t)
  \/ \E t \in Threads : SelfcheckCompare(t)
  \/ \E e \in EnvValues : Setenv(e)

Spec == Init /\ [][Next]_vars

(***************************************************************************)
(* Scheduling.  A thread inside a call is a runnable pthread unless it     *)
(* waits in pthread_once, and pthread_once lets its waiters go when the    *)
(* initializer returns: every step of a started call that stays possible   *)
(* is eventually taken.  Nothing obliges the host to make further calls or *)
(* to change the environment.                                              *)
(***************************************************************************)
Run(t) ==
  \/ OnceWake(t)
  \/ InitCheck(t)
  \/ InitEnv(t)
  \/ InitDecide(t)
  \/ Crc32c(t)
  \/ ImplName(t)
  \/ ForceOnce(t)
  \/ ForceWrite(t)
  \/ SelfcheckRead(t)
  \/ SelfcheckCompare(t)

FairSpec == Spec /\ \A t \in Threads : WF_vars(Run(t))


(***************************************************************************)
(* One run of each engine on one buffer, crc32c_hw_body statement by       *)
(* statement, as crc32c_test.cc runs crc32c_hw and crc32c_sw side by side. *)
(***************************************************************************)
\* the bytes of the test's pattern: pattern[i] = (unsigned char)(i * 5 + 1)
pattern5(i) == (i * 5 + 1) % 256

\* bytes that exercise carries and the all-zero and all-one registers
ByteSamples == {0, 1, 128, 255}

EngineInputs ==
  {k_vec}
  \cup {Slice(off, len) : off \in 0..MaxOff, len \in 0..MaxLen}
  \cup {[j \in 1..len |-> pattern5(j - 1)] : len \in 0..MaxLen}
  \cup {[j \in 1..len |-> v] : v \in ByteSamples, len \in 1..MaxLen}

EInit ==
  /\ arch \in {a \in Archs : X86_ONLY(a)}
  /\ sse42 = TRUE
  /\ sc_failures = 0
  /\ disagree = FALSE
  /\ sw_out = <<>>
  /\ hw_out = <<>>
  /\ env = "unset"
  /\ Fresh
  /\ e_src \in EngineInputs
  /\ e_pc = "entry"
  /\ e_st = [s |-> 1, len |-> 0, h |-> {}]
  /\ e_reads = <<>>
  /\ e_hw = <<>>
  /\ e_sw = <<>>

process == <<machine, env, shared, locals, results, ghosts>>

\* the indices a memcpy of n bytes from s reads
Read(n) == [j \in 1..n |-> e_st.s + j - 1]

HwEntry ==
  /\ e_pc = "entry"
  /\ e_st' = hw_entry(e_src)
  /\ e_pc' = IF arch = "x86_64" THEN "loop8" ELSE "trunc"
  /\ UNCHANGED <<process, e_src, e_reads, e_hw, e_sw>>

HwIter8 ==
  /\ e_pc = "loop8"
  /\ e_st.len > 7
  /\ e_st' = hw_iter8(e_src, e_st)
  /\ e_reads' = e_reads \o Read(8)
  /\ UNCHANGED <<process, e_src, e_pc, e_hw, e_sw>>

HwLoopExit ==
  /\ e_pc = "loop8"
  /\ ~(e_st.len > 7)
  /\ e_pc' = "trunc"
  /\ UNCHANGED <<process, e_src, e_st, e_reads, e_hw, e_sw>>

HwTrunc ==
  /\ e_pc = "trunc"
  /\ e_st' = hw_trunc(e_st)
  /\ e_pc' = "if4"
  /\ UNCHANGED <<process, e_src, e_reads, e_hw, e_sw>>

HwStep4 ==
  /\ e_pc = "if4"
  /\ e_st' = hw_step4(e_src, e_st)
  /\ e_reads' = IF e_st.len > 3 THEN e_reads \o Read(4) ELSE e_reads
  /\ e_pc' = "if2"
  /\ UNCHANGED <<process, e_src, e_hw, e_sw>>

HwStep2 ==
  /\ e_pc = "if2"
  /\ e_st' = hw_step2(e_src, e_st)
  /\ e_reads' = IF e_st.len > 1 THEN e_reads \o Read(2) ELSE e_reads
  /\ e_pc' = "if1"
  /\ UNCHANGED <<process, e_src, e_hw, e_sw>>

HwStep1 ==
  /\ e_pc = "if1"
  /\ e_st' = hw_step1(e_src, e_st)
  /\ e_reads' = IF e_st.len > 0 THEN e_reads \o Read(1) ELSE e_reads
  /\ e_pc' = "ret"
  /\ UNCHANGED <<process, e_src, e_hw, e_sw>>

HwReturn ==
  /\ e_pc = "ret"
  /\ e_hw' = <<Not32(e_st.h)>>
  /\ e_pc' = "done"
  /\ UNCHANGED <<process, e_src, e_st, e_reads, e_sw>>

SwRun ==
  /\ e_pc # "off"
  /\ e_sw = <<>>
  /\ e_sw' = <<crc32c_sw(e_src)>>
  /\ UNCHANGED <<process, e_src, e_pc, e_st, e_reads, e_hw>>

ENext ==
  \/ HwEntry
  \/ HwIter8
  \/ HwLoopExit
  \/ HwTrunc
  \/ HwStep4
  \/ HwStep2
  \/ HwStep1
  \/ HwReturn
  \/ SwRun

EngineSpec == EInit /\ [][ENext]_vars


(***************************************************************************)
(* Properties of the dispatcher, checked under Spec.                       *)
(***************************************************************************)
\* C1 (ratchet): once a call of crc32c_force_software has returned, g_impl
\* is SW in every later state and crc32c_impl_name, called after that
\* return, never answers "hw"; and once crc32c_init has completed no step
\* takes g_impl from SW to HW.
C1_Ratchet ==
  /\ [](/\ force_returned => g_impl = SW
        /\ (last.op = "crc32c_impl_name" /\ last.after_force)
             => last.ret = RetStr("sw"))
  /\ [][(g_crc32c_once = "DONE" /\ g_impl = SW) => g_impl' = SW]_vars

\* crc32c_init chose HW, crc32c_force_software returned, and a later
\* crc32c_impl_name answered "sw"
C1_Witness ==
  /\ init_obs.result = HW
  /\ force_returned
  /\ last.op = "crc32c_impl_name"
  /\ last.after_force
  /\ last.ret = RetStr("sw")

\* C2 (concurrent first use): however many threads reach pthread_once
\* before crc32c_init has completed, the body of crc32c_init is entered
\* once in the process, no caller goes on before it has completed, and, if
\* no thread calls crc32c_force_software, every caller reads the selector
\* crc32c_init left and crc32c returns that engine's checksum of its input.
C2_InitOnce ==
  /\ init_runs <= 1
  /\ (g_crc32c_once # "INIT") => init_runs = 1
  /\ \A t \in Threads :
       pc[t] \in {"read", "sc_check", "fs_write"} => g_crc32c_once = "DONE"
  /\ ~force_called =>
       /\ (g_crc32c_once = "DONE") => g_impl = init_obs.result
       /\ last.sel \in {"none", init_obs.result}
       /\ \A t \in Threads : sel[t] \in {"none", init_obs.result}
       /\ (last.op = "crc32c") => last.ret = RetCrc(crc32c(init_obs.result, last.buf))

\* two calls were made, one of them found crc32c_init running and waited,
\* both have returned, the last of them crc32c of "123456789"
C2_Witness ==
  /\ init_obs.waited
  /\ ~force_called
  /\ init_runs = 1
  /\ calls = 2
  /\ \A t \in Threads : pc[t] = "idle"
  /\ last.op = "crc32c"
  /\ last.buf = k_vec
  /\ last.sel = HW

\* C3 (initialization decision): when no crc32c_force_software set the
\* flag while crc32c_init ran, the selector crc32c_init leaves is HW iff
\* g_force_sw was 0 on entry, CRC32C_FORCE is not "sw" and the CPU has the
\* instruction, and SW otherwise; so "sw" gives SW, "hw" gives HW on a
\* capable CPU only, and any other value gives what no setting gives.
C3_InitDecision ==
  (g_crc32c_once = "DONE" /\ ~init_obs.raced) =>
    /\ init_obs.result \in {HW, SW}
    /\ (init_obs.result = HW) <=>
         (init_obs.force = 0 /\ init_obs.env # "sw" /\ cpu_has_hw_crc)
    /\ (init_obs.env = "sw") => init_obs.result = SW
    /\ (init_obs.env = "hw") => (init_obs.result = HW <=> cpu_has_hw_crc)
    /\ (init_obs.env \in {"unset", "other"}) =>
         (init_obs.result = HW <=> cpu_has_hw_crc)

\* crc32c_init ran alone with CRC32C_FORCE=hw on a CPU without the
\* instruction and left SW
C3_Witness ==
  /\ g_crc32c_once = "DONE"
  /\ ~init_obs.raced
  /\ init_obs.force = 0
  /\ init_obs.env = "hw"
  /\ ~cpu_has_hw_crc
  /\ init_obs.result = SW
  /\ last.op = "crc32c_impl_name"
  /\ last.ret = RetStr("sw")

\* C4 (force-software postcondition): when crc32c_force_software has
\* returned, crc32c_init has run, once, and has completed, the selector is
\* SW, and every crc32c that began after the return executed crc32c_sw.
C4_ForcePost ==
  /\ force_returned =>
       (g_crc32c_once = "DONE" /\ init_runs = 1 /\ g_impl = SW)
  /\ (last.op = "crc32c" /\ last.after_force) =>
       (last.sel = SW /\ last.ran = {"sw"} /\ last.ret = RetCrc(sw_out[last.buf]))

\* the selector was HW, crc32c_force_software returned, and a crc32c begun
\* after that ran the software engine
C4_Witness ==
  /\ init_obs.result = HW
  /\ force_returned
  /\ last.op = "crc32c"
  /\ last.after_force
  /\ last.buf = k_vec
  /\ last.ran = {"sw"}


\* C5 (idempotence of forcing): a crc32c_force_software called right after
\* another one returned leaves the dispatch state (selector, force flag,
\* once-guard) exactly as the first one left it; crc32c_impl_name then
\* answers "sw" and crc32c returns the software reference value.
C5_ForceTwice ==
  /\ [][\A t \in Threads :
          (/\ pc[t] = "fs_write"
           /\ op[t] = "crc32c_force_software"
           /\ prev[t] # <<>>
           /\ pc'[t] = "idle")
            => <<g_impl', g_force_sw', g_crc32c_once'>> = prev[t]]_vars
  /\ [](/\ (last.op = "crc32c_impl_name" /\ last.after_force)
             => last.ret = RetStr("sw")
        /\ (last.op = "crc32c" /\ last.after_force)
             => last.ret = RetCrc(sw_out[last.buf]))

\* C6 (self-check outcome): a crc32c_selfcheck that read the selector HW
\* returns non-zero iff crc32c_hw and crc32c_sw differ on "123456789" or
\* on a checked (offset, length) slice of the pattern; when it has returned
\* non-zero the selector is SW and a crc32c_impl_name begun afterwards
\* answers "sw"; when it has returned 0 (and nothing forced software
\* meanwhile) the selector is still HW.
C6_SelfcheckOutcome ==
  /\ (last.op = "crc32c_selfcheck" /\ last.sel = HW) =>
       /\ last.ran = {"hw", "sw"}
       /\ (last.ret # RetInt(0)) <=> disagree
       /\ (last.ret # RetInt(0)) => (g_impl = SW /\ force_returned)
       /\ (last.ret = RetInt(0) /\ ~force_called) => g_impl = HW
  /\ (last.op = "crc32c_impl_name" /\ last.after_force /\ disagree) =>
       last.ret = RetStr("sw")

\* the build whose crc32c_hw_body has no 8-byte loop, on a CPU with the
\* instruction: crc32c_selfcheck found the mismatch and returned -1
C6_Witness ==
  /\ last.op = "crc32c_selfcheck"
  /\ last.sel = HW
  /\ last.ret = RetInt(-1)
  /\ disagree
  /\ g_impl = SW

C8_DispatchAgrees ==
  (last.op = "crc32c") => last.ret = RetCrc(sw_out[last.buf])

\* C10 (known vector): crc32c_sw("123456789") is 0xE3069283, and so is
\* crc32c("123456789") whichever engine is selected.
C10_KnownVector ==
  /\ sw_out[k_vec] = KnownCrc
  /\ (last.op = "crc32c" /\ last.buf = k_vec) => last.ret = RetCrc(KnownCrc)

\* C11 (dispatch discipline): crc32c_hw_body is executed, by crc32c or by
\* crc32c_selfcheck, only on a CPU where cpu_has_hw_crc returns true,
\* whatever CRC32C_FORCE is; the selector is never HW on another CPU.
C11_DispatchDiscipline ==
  /\ ("hw" \in last.ran) => cpu_has_hw_crc
  /\ (g_impl = HW) => cpu_has_hw_crc
  /\ \A t \in Threads :
       /\ (pc[t] = "sc_check") => cpu_has_hw_crc
       /\ (sel[t] = HW) => cpu_has_hw_crc

\* an x86 build on a CPU without the instruction, CRC32C_FORCE=hw read by
\* crc32c_init: crc32c ran the software engine
C11_Witness ==
  /\ X86_ONLY(arch)
  /\ ~cpu_has_hw_crc
  /\ init_obs.env = "hw"
  /\ last.op = "crc32c"
  /\ last.buf = k_vec
  /\ last.ran = {"sw"}

\* C12 (no caller is blocked forever), under FairSpec: every call that has
\* begun eventually returns; a caller waits in pthread_once only while
\* crc32c_init has been started by another thread, and a caller that reaches
\* pthread_once after crc32c_init has completed does not wait.
C12_NoCallerBlocked ==
  /\ \A t \in Threads : (pc[t] # "idle") ~> (pc[t] = "idle")
  /\ [](\A t \in Threads : (pc[t] = "once") => g_crc32c_once # "INIT")
  /\ [][\A t \in Threads :
          (g_crc32c_once = "DONE" /\ pc[t] # "once") => pc'[t] # "once"]_vars

\* a caller found crc32c_init running, waited, and every call has returned
C12_Witness ==
  /\ init_obs.waited
  /\ calls = MaxCalls
  /\ \A t \in Threads : pc[t] = "idle"
  /\ last.op = "crc32c_force_software"

\* the functions that only read the dispatch state
Readers == {"crc32c", "crc32c_impl_name"}

\* C13 (selector stability): once crc32c_init has completed, no step of a
\* crc32c or crc32c_impl_name call changes g_impl or g_force_sw, and what
\* such a call returns is decided by g_impl alone, not by CRC32C_FORCE or
\* the CPU; a change of CRC32C_FORCE changes nothing of the dispatch state;
\* and g_impl changes only from HW to SW, at the last statement of
\* crc32c_force_software (called directly or by a failed crc32c_selfcheck).
C13_SelectorStable ==
  [][(g_crc32c_once = "DONE") =>
       /\ \A t \in Threads :
            (pc'[t] # pc[t] /\ (op[t] \in Readers \/ op'[t] \in Readers)) =>
              /\ g_impl' = g_impl
              /\ g_force_sw' = g_force_sw
              /\ g_crc32c_once' = "DONE"
              /\ (pc[t] = "read" /\ op[t] = "crc32c") =>
                   (last'.sel = g_impl /\ last'.ret = RetCrc(crc32c(g_impl, buf[t])))
              /\ (pc[t] = "read" /\ op[t] = "crc32c_impl_name") =>
                   (last'.ret = RetStr(IF g_impl = HW THEN "hw" ELSE "sw"))
       /\ (env' # env) => (shared' = shared)
       /\ (g_impl' # g_impl) =>
            /\ g_impl = HW
            /\ g_impl' = SW
            /\ \E t \in Threads :
                 /\ pc[t] = "fs_write"
                 /\ pc'[t] = "idle"
                 /\ op[t] \in {"crc32c_force_software", "crc32c_selfcheck"}
    ]_vars

\* crc32c_init read CRC32C_FORCE=hw and chose HW; the variable is "sw" when
\* a later crc32c reads the selector, and crc32c still runs the hardware
\* engine
C13_Witness ==
  /\ g_crc32c_once = "DONE"
  /\ init_obs.env = "hw"
  /\ init_obs.result = HW
  /\ calls = MaxCalls
  /\ \A t \in Threads : pc[t] = "idle"
  /\ last.op = "crc32c"
  /\ last.env = "sw"
  /\ last.sel = HW
  /\ last.ran = {"hw"}

\* C14 (self-check initializes the dispatcher): once a crc32c_selfcheck
\* has returned, crc32c_init has run and completed, on every build.
C14_SelfcheckInitializes ==
  (last.op = "crc32c_selfcheck") =>
    (g_crc32c_once = "DONE" /\ init_runs = 1 /\ init_obs.result \in {HW, SW})

\* C15 (the force flag survives a racing initialization): once a
\* crc32c_force_software has returned, also one that was called while
\* another thread executed crc32c_init, g_force_sw is 1 and g_impl is SW,
\* in that state and in every later one.
C15_ForceFlagSurvives ==
  force_returned => (g_force_sw = 1 /\ g_impl = SW)

\* C17 (the availability query is independent of the dispatch state):
\* crc32c_hw_available returns what cpu_has_hw_crc returns, 1 or 0, in
\* every dispatch state (before and after crc32c_init, after
\* crc32c_force_software), and its call starts no initialization and
\* leaves g_impl, g_force_sw and the once-guard as they were.
C17_HwAvailableIndependent ==
  /\ []((last.op = "crc32c_hw_available") =>
          (last.ret = RetInt(IF cpu_has_hw_crc THEN 1 ELSE 0)))
  /\ [][(/\ last'.op = "crc32c_hw_available"
          /\ calls' # calls
          /\ env' = env
          /\ pc' = pc)
           => (/\ shared' = shared
               /\ init_runs' = init_runs
               /\ init_obs' = init_obs
               /\ last'.ret = RetInt(IF cpu_has_hw_crc THEN 1 ELSE 0))]_vars

\* on a CPU with the instruction, after crc32c_force_software has returned
\* and the selector is SW, crc32c_hw_available returned 1
C17_Witness ==
  /\ last.op = "crc32c_hw_available"
  /\ last.after_force
  /\ g_crc32c_once = "DONE"
  /\ g_impl = SW
  /\ last.ret = RetInt(1)

\* C18 (selector invariant): g_impl is always HW or SW, never AUTO, and SW
\* until crc32c_init has completed; whenever it is HW, crc32c_init has run
\* (once, and completed), cpu_has_hw_crc returned true in it, and no
\* crc32c_force_software has returned.
C18_SelectorInvariant ==
  /\ g_impl \in crc32c_impl
  /\ g_impl # "CRC32C_IMPL_AUTO"
  /\ (g_crc32c_once # "DONE") => g_impl = SW
  /\ (g_impl = HW) =>
       /\ g_crc32c_once = "DONE"
       /\ init_runs = 1
       /\ init_obs.result = HW
       /\ cpu_has_hw_crc
       /\ ~force_returned

\* the selector is HW while a crc32c_force_software that has set the flag
\* has not yet returned, and a crc32c has just used the hardware engine
C18_Witness ==
  /\ g_impl = HW
  /\ g_force_sw = 1
  /\ force_called
  /\ ~force_returned
  /\ last.op = "crc32c"
  /\ last.sel = HW

(***************************************************************************)
(* Properties of the engines, checked under EngineSpec.                    *)
(***************************************************************************)
\* C9 (engine equivalence): for every byte sequence, crc32c_hw_body returns
\* what the bit-serial crc32c_sw returns.
C9_EngineEquivalence ==
  (e_hw # <<>> /\ e_sw # <<>>) => e_hw = e_sw

\* C16 (the hardware engine consumes the buffer exactly): crc32c_hw_body
\* never reads a byte outside src[0..len-1], reads the bytes in order, each
\* once, and when it returns it has read all len of them (none remains).
C16_ConsumesExactly ==
  /\ \A j \in 1..Len(e_reads) : e_reads[j] = j /\ e_reads[j] <= Len(e_src)
  /\ (e_pc = "done") => Len(e_reads) = Len(e_src)

====
